---- MODULE Spec2Model ----
(***************************************************************************)
(* stats_on_sight: POST /upload stores an image in a bucket, runs OCR on   *)
(* its public URL, resolves the first team abbreviation found in the text, *)
(* and returns the on-ice players of that team's live or previous game.    *)
(*                                                                         *)
(* Two programs of the repository are modelled: src/app.js (actions and    *)
(* operators without suffix) and the earlier src/unnamed/part_000 (suffix  *)
(* 0).  Lines 1-119 of the two files are identical, so the upload, store   *)
(* and OCR-call steps are shared.                                          *)
(*                                                                         *)
(* A text is a sequence of one-character strings; a JSON object is a       *)
(* record; a JSON array is a sequence; an optional value is a sequence of  *)
(* length 0 or 1.                                                          *)
(***************************************************************************)
EXTENDS Integers, Sequences, FiniteSets, TLC

\* ---------------------------------------------------------------- bounds
\* Number of upload requests a behaviour contains.
NumReqs == 2
\* A text of the wide text set is a concatenation of at most MaxPieces pieces.
MaxPieces == 3
\* Longest onIce list of the wide boxscore set.
MaxOnIce == 2

Reqs == 1..NumReqs

VARIABLES
  pc,          \* [Reqs -> stage of the request's async chain]
  file,        \* [Reqs -> req.file]
  bucket,      \* [FileNames -> optional object bytes]: the storage bucket
  fetched,     \* [Reqs -> optional bytes the OCR service read from publicUrl]
  detections,  \* [Reqs -> result.textAnnotations (descriptions)]
  schedReqs,   \* [Reqs -> team ids of the schedule requests issued]
  schedBody,   \* [Reqs -> optional body received from the schedule request]
  boxReqs,     \* [Reqs -> game ids of the boxscore requests issued]
  boxBody,     \* [Reqs -> optional body received from the boxscore request]
  sent,        \* [Reqs -> the send calls made on res, in order]
  log          \* [Reqs -> stage events of the request, in order]

vars == <<pc, file, bucket, fetched, detections, schedReqs, schedBody,
          boxReqs, boxBody, sent, log>>

\* ------------------------------------------------------------ team table
teamNameMap ==
    { <<<<"N","J","D">>, 1>>, <<<<"N","Y","I">>, 2>>, <<<<"N","Y","R">>, 3>>,
      <<<<"P","H","I">>, 4>>, <<<<"P","I","T">>, 5>>, <<<<"B","O","S">>, 6>>,
      <<<<"B","U","F">>, 7>>, <<<<"M","T","L">>, 8>>, <<<<"O","T","T">>, 9>>,
      <<<<"T","O","R">>, 10>>, <<<<"C","A","R">>, 12>>, <<<<"F","L","A">>, 13>>,
      <<<<"T","B","L">>, 14>>, <<<<"W","S","H">>, 15>>, <<<<"C","H","I">>, 16>>,
      <<<<"D","E","T">>, 17>>, <<<<"N","S","H">>, 18>>, <<<<"S","T","L">>, 19>>,
      <<<<"C","G","Y">>, 20>>, <<<<"C","O","L">>, 21>>, <<<<"E","D","M">>, 22>>,
      <<<<"V","A","N">>, 23>>, <<<<"A","N","A">>, 24>>, <<<<"D","A","L">>, 25>>,
      <<<<"L","A","K">>, 26>>, <<<<"S","J","S">>, 28>>, <<<<"C","B","J">>, 29>>,
      <<<<"M","I","N">>, 30>>, <<<<"W","P","G">>, 52>>, <<<<"A","R","I">>, 53>>,
      <<<<"V","G","K">>, 54>> }

\* teamNameMap.hasOwnProperty(word): own keys only, compared case-sensitively.
hasOwnProperty(word) == \E e \in teamNameMap : e[1] = word

\* teamNameMap[word], for an own key.
lookup(word) == (CHOOSE e \in teamNameMap : e[1] = word)[2]

\* ------------------------------------------------------------ tokenizing
\* The characters the class [\s\n] matches, among those the texts use.
Whitespace == {" ", "\n", "\t"}

RECURSIVE SkipRun(_, _)
\* First index at or after i that is past the run of whitespace starting at i.
SkipRun(s, i) ==
    IF i <= Len(s) /\ s[i] \in Whitespace THEN SkipRun(s, i + 1) ELSE i

RECURSIVE SplitFrom(_, _, _)
SplitFrom(s, i, cur) ==
    IF i > Len(s) THEN <<cur>>
    ELSE IF s[i] \in Whitespace
         THEN <<cur>> \o SplitFrom(s, SkipRun(s, i), <<>>)
         ELSE SplitFrom(s, i + 1, Append(cur, s[i]))

\* description.split(/[\s\n]+/): the pieces between maximal whitespace runs;
\* a leading or trailing run leaves an empty first or last piece, and the
\* empty string splits to one empty piece.
Split(description) == SplitFrom(description, 1, <<>>)

RECURSIVE SplitSpaceFrom(_, _, _)
SplitSpaceFrom(s, i, cur) ==
    IF i > Len(s) THEN <<cur>>
    ELSE IF s[i] = " "
         THEN <<cur>> \o SplitSpaceFrom(s, i + 1, <<>>)
         ELSE SplitSpaceFrom(s, i + 1, Append(cur, s[i]))

\* part_000: description.split(" "): every single space separates.
Split0(description) == SplitSpaceFrom(description, 1, <<>>)

RECURSIVE Matches(_)
\* words.forEach(word => { if (hasOwnProperty(word)) teams.push(map[word]) })
Matches(words) ==
    IF words = <<>> THEN <<>>
    ELSE (IF hasOwnProperty(Head(words)) THEN <<lookup(Head(words))>> ELSE <<>>)
         \o Matches(Tail(words))

\* The teams array of getTeamIdsFromText.
Teams(description) == Matches(Split(description))

\* part_000: the teams array of getTeamIdsFromText.
Teams0(description) == Matches(Split0(description))

LastTeam(teams) == teams[Len(teams)]

\* teams[0], the argument of getCurrentGame.
FirstTeam(teams) == teams[1]


\* ---------------------------------------------------------------- inputs
FileNames == {"a.png", "b.png"}

\* An image is abstracted to the text it shows; <<>> shows no text.
TxtNone == <<>>
TxtNoTeam == <<"G","O"," ","n","y","i">>
TxtOneTeam == <<"N","Y","I">>
TxtTwoTeams == <<"T","O","R","\n","N","Y","I">>

SampleImages == {TxtNone, TxtNoTeam, TxtTwoTeams}

Pieces ==
    { <<"N","Y","I">>, <<"T","O","R">>, <<"n","y","i">>, <<"X">>,
      <<" ">>, <<"\n">>, <<"\t">> }

RECURSIVE Flatten(_)
Flatten(ps) == IF ps = <<>> THEN <<>> ELSE Head(ps) \o Flatten(Tail(ps))

\* Every concatenation of at most MaxPieces pieces.
Texts == { Flatten(ps) : ps \in UNION { [1..n -> Pieces] : n \in 0..MaxPieces } }

NoFile == [has |-> FALSE]

FilesOf(names, images) ==
    { [has |-> TRUE, originalname |-> n, buffer |-> b] : n \in names, b \in images }

\* The OCR service on the bytes it fetched: no annotation for an image without
\* text, otherwise the aggregate text first.  The per-word annotations that
\* follow it are never read by either program and are left out.
textAnnotations(image) == IF image = <<>> THEN <<>> ELSE <<image>>

\* ---- schedule bodies (GET /teams/{id}?expand=...)
\* next and prev are nextGameSchedule.dates[0].games and
\* previousGameSchedule.dates[0].games; an empty sequence stands for any
\* missing link of that key path.
GameStates == {"Live", "Preview", "Final"}

Malformed == [valid |-> FALSE]

Game(state, pk) == [status |-> [abstractGameState |-> state], gamePk |-> pk]

ScheduleJson(next, prev) == [valid |-> TRUE, next |-> next, prev |-> prev]

SampleSchedules ==
    { ScheduleJson(n, p) :
        n \in {<<>>} \cup { <<Game(s, 2019020002)>> : s \in GameStates },
        p \in {<<>>, <<Game("Final", 2019020001)>>} }
    \cup {Malformed}

ScheduleLive == ScheduleJson(<<Game("Live", 2019020002)>>, <<Game("Final", 2019020001)>>)

\* ---- boxscore bodies (GET /game/{id}/boxscore)
PlayerIds == {8475, 8477}

Persons ==
    { [fullName |-> "Anders Lee", primaryNumber |-> "27"],
      [fullName |-> "John Tavares", primaryNumber |-> "91"] }

TeamNames == {"New York Islanders", "Toronto Maple Leafs"}

\* 'ID' + playerId
PlayerKey(playerId) == <<"ID", playerId>>

Rosters ==
    UNION { [ { PlayerKey(i) : i \in S } -> { [person |-> p] : p \in Persons } ]
            : S \in SUBSET PlayerIds }

OnIceLists(n) == UNION { [1..k -> PlayerIds] : k \in 0..n }

Sides(n) ==
    { [team |-> [name |-> nm], onIce |-> ice, players |-> ps] :
        nm \in TeamNames, ice \in OnIceLists(n), ps \in Rosters }

BoxscoreJson(home, away) == [valid |-> TRUE, teams |-> [home |-> home, away |-> away]]

\* The wide set of boxscore bodies.
Boxscores == { BoxscoreJson(h, a) : h \in Sides(MaxOnIce), a \in Sides(MaxOnIce) }

Lee == [person |-> [fullName |-> "Anders Lee", primaryNumber |-> "27"]]
Tavares == [person |-> [fullName |-> "John Tavares", primaryNumber |-> "91"]]

SideNYI(ice) ==
    [team |-> [name |-> "New York Islanders"], onIce |-> ice,
     players |-> (PlayerKey(8475) :> Lee)]

SideTOR(ice) ==
    [team |-> [name |-> "Toronto Maple Leafs"], onIce |-> ice,
     players |-> (PlayerKey(8477) :> Tavares)]

BoxscoreOk == BoxscoreJson(SideNYI(<<8475>>), SideTOR(<<8477>>))

\* A body whose home onIce list names a player its roster lacks.
BoxscoreNoPlayer == BoxscoreJson(SideNYI(<<8477>>), SideTOR(<<8477>>))

SampleBoxscores == {BoxscoreOk, BoxscoreNoPlayer, Malformed}

\* ------------------------------------------------------- getCurrentGame
\* JSON.parse(body) throws.
ParseThrows(body) == ~body.valid

\* The try block of getCurrentGame throws before getGameStats is called.
ScheduleThrows(body) ==
    \/ ParseThrows(body)
    \/ body.next = <<>>
    \/ /\ body.next[1].status.abstractGameState # "Live"
       /\ body.prev = <<>>

AlwaysNextGame(json) == json.next[1].gamePk

\* gameId of getCurrentGame, for a body on which the try block does not throw.
SelectGame(json) ==
    LET nextGame == json.next[1] IN
    IF nextGame.status.abstractGameState = "Live"
    THEN nextGame.gamePk
    ELSE json.prev[1].gamePk

\* part_000: the try block of getCurrentGame throws.
ScheduleThrows0(body) == ParseThrows(body) \/ body.next = <<>>

\* part_000: gameID of getCurrentGame.
SelectGame0(json) == json.next[1].gamePk

\* ----------------------------------------------------------- formatJson
\* json['teams'][side]['players']['ID' + playerId] is undefined for some
\* playerId of the side's onIce list, so reading ['person'] of it throws.
SideThrows(side) ==
    \E i \in 1..Len(side.onIce) : PlayerKey(side.onIce[i]) \notin DOMAIN side.players

FormatThrows(json) == SideThrows(json.teams.home) \/ SideThrows(json.teams.away)

\* json['teams'][side]['onIce'].map(playerId => ...) reading the roster `players`.
OnIce(ice, players) ==
    [ i \in 1..Len(ice) |->
        LET player == players[PlayerKey(ice[i])].person IN
        [fullName |-> player.fullName, number |-> player.primaryNumber] ]

formatJsonAwayNameFromHome(json) ==
    [ home |-> [ name |-> json.teams.home.team.name,
                 onIce |-> OnIce(json.teams.home.onIce, json.teams.home.players) ],
      away |-> [ name |-> json.teams.home.team.name,
                 onIce |-> OnIce(json.teams.away.onIce, json.teams.away.players) ] ]

formatJson(json) ==
    [ home |-> [ name |-> json.teams.home.team.name,
                 onIce |-> OnIce(json.teams.home.onIce, json.teams.home.players) ],
      away |-> [ name |-> json.teams.away.team.name,
                 onIce |-> OnIce(json.teams.away.onIce, json.teams.away.players) ] ]

\* ------------------------------------------------------------ responses
\* {}
EmptyObject == [k \in {} |-> TRUE]

Send(status, kind, body) == [status |-> status, kind |-> kind, body |-> body]

NoFileResponse == Send(400, "text", "No file uploaded.")
NoTextResponse == Send(404, "object", [error |-> "No text in image"])
\* Express's default error handler, reached through next(err).
ErrorResponse == Send(500, "text", "Internal Server Error")

\* ---------------------------------------------------------------- state
\* pc: "idle"      no request received yet
\*     "storing"   blobStream.end(buffer) called, neither finish nor error yet
\*     "detecting" client.textDetection(publicUrl) called, URL not yet fetched
\*     "annotating" the OCR service has fetched the URL, no answer yet
\*     "schedule"  httpClient.get of the schedule URL issued, no end yet
\*     "boxscore"  httpClient.get of the boxscore URL issued, no end yet
\*     "done"      the handler chain ran to its end
\*     "rejected"  the async finish handler rejected; nothing catches it
\*     "uncaught"  an 'error' event nobody listens to was emitted
Terminal == {"done", "rejected", "uncaught"}

Init ==
    /\ pc = [r \in Reqs |-> "idle"]
    /\ file = [r \in Reqs |-> NoFile]
    /\ bucket = [n \in FileNames |-> <<>>]
    /\ fetched = [r \in Reqs |-> <<>>]
    /\ detections = [r \in Reqs |-> <<>>]
    /\ schedReqs = [r \in Reqs |-> <<>>]
    /\ schedBody = [r \in Reqs |-> <<>>]
    /\ boxReqs = [r \in Reqs |-> <<>>]
    /\ boxBody = [r \in Reqs |-> <<>>]
    /\ sent = [r \in Reqs |-> <<>>]
    /\ log = [r \in Reqs |-> <<>>]

\* No request is between its receipt and the end of its chain.
Quiescent == \A q \in Reqs : pc[q] \in {"idle"} \cup Terminal

\* ----------------------------------------------- POST /upload, both files
UploadNoFileDefaultStatus(r) ==
    /\ pc[r] = "idle"
    /\ pc' = [pc EXCEPT ![r] = "done"]
    /\ sent' = [sent EXCEPT ![r] = Append(@, Send(200, "text", "No file uploaded."))]
    /\ log' = [log EXCEPT ![r] = Append(@, "respond")]
    /\ UNCHANGED <<file, bucket, fetched, detections, schedReqs, schedBody,
                   boxReqs, boxBody>>

\* if (!req.file) { res.status(400).send('No file uploaded.'); return; }
UploadNoFile(r) ==
    /\ pc[r] = "idle"
    /\ pc' = [pc EXCEPT ![r] = "done"]
    /\ sent' = [sent EXCEPT ![r] = Append(@, NoFileResponse)]
    /\ log' = [log EXCEPT ![r] = Append(@, "respond")]
    /\ UNCHANGED <<file, bucket, fetched, detections, schedReqs, schedBody,
                   boxReqs, boxBody>>

\* req.file present: the write stream is created, the two listeners are
\* registered and blobStream.end(req.file.buffer) starts the write.
UploadFile(r, f) ==
    /\ pc[r] = "idle"
    /\ f.has
    /\ file' = [file EXCEPT ![r] = f]
    /\ pc' = [pc EXCEPT ![r] = "storing"]
    /\ log' = [log EXCEPT ![r] = Append(@, "store.begin")]
    /\ UNCHANGED <<bucket, fetched, detections, schedReqs, schedBody,
                   boxReqs, boxBody, sent>>

\* blobStream.on('error', err => next(err)): the write failed, no object is
\* created, Express's error handler answers.
StoreError(r) ==
    /\ pc[r] = "storing"
    /\ pc' = [pc EXCEPT ![r] = "done"]
    /\ sent' = [sent EXCEPT ![r] = Append(@, ErrorResponse)]
    /\ log' = [log EXCEPT ![r] = @ \o <<"store.error", "respond">>]
    /\ UNCHANGED <<file, bucket, fetched, detections, schedReqs, schedBody,
                   boxReqs, boxBody>>

\* The write completes: the object named req.file.originalname is created or
\* overwritten, 'finish' fires and its handler runs up to
\* await client.textDetection(publicUrl).
StoreFinish(r) ==
    /\ pc[r] = "storing"
    /\ bucket' = [bucket EXCEPT ![file[r].originalname] = <<file[r].buffer>>]
    /\ pc' = [pc EXCEPT ![r] = "detecting"]
    /\ log' = [log EXCEPT ![r] = @ \o <<"store.end", "ocr.begin">>]
    /\ UNCHANGED <<file, fetched, detections, schedReqs, schedBody,
                   boxReqs, boxBody, sent>>

\* The OCR service reads the object behind publicUrl, which names the bucket
\* and blob.name only.
OcrFetch(r) ==
    /\ pc[r] = "detecting"
    /\ fetched' = [fetched EXCEPT ![r] = bucket[file[r].originalname]]
    /\ pc' = [pc EXCEPT ![r] = "annotating"]
    /\ UNCHANGED <<file, bucket, detections, schedReqs, schedBody,
                   boxReqs, boxBody, sent, log>>

\* client.textDetection rejects: the await throws inside the async finish
\* handler, which has no try/catch and whose promise nobody observes.
OcrReject(r) ==
    /\ pc[r] \in {"detecting", "annotating"}
    /\ pc' = [pc EXCEPT ![r] = "rejected"]
    /\ log' = [log EXCEPT ![r] = Append(@, "ocr.error")]
    /\ UNCHANGED <<file, bucket, fetched, detections, schedReqs, schedBody,
                   boxReqs, boxBody, sent>>

\* An httpClient.get request fails: its 'error' event has no listener.
RequestError(r) ==
    /\ pc[r] \in {"schedule", "boxscore"}
    /\ pc' = [pc EXCEPT ![r] = "uncaught"]
    /\ log' = [log EXCEPT ![r] = Append(@, pc[r] \o ".error")]
    /\ UNCHANGED <<file, bucket, fetched, detections, schedReqs, schedBody,
                   boxReqs, boxBody, sent>>

\* ------------------------------------------------------- app.js handlers
\* textDetection resolves; the finish handler continues from line 120.
\*   no annotation: res.status(404).send(...), and then, there being no
\*     return, res.status(200).json(teamIds) with teamIds undefined; the
\*     response is already finished, so nothing more reaches the client
\*     (the second send is recorded with kind "undefined"; it has no body).
\*   otherwise getTeamIdsFromText(detections[0].description) runs: with no
\*     team it returns {} and the handler sends it; with a team it calls
\*     getCurrentGame(teams[0]), which issues the schedule request.
OcrResolve(r) ==
    /\ pc[r] = "annotating"
    /\ LET found == textAnnotations(fetched[r][1]) IN
       /\ detections' = [detections EXCEPT ![r] = found]
       /\ IF Len(found) > 0
          THEN LET teams == Teams(found[1]) IN
               IF Len(teams) = 0
               THEN /\ sent' = [sent EXCEPT ![r] = Append(@, Send(200, "object", EmptyObject))]
                    /\ log' = [log EXCEPT ![r] = @ \o <<"ocr.end", "resolve", "respond">>]
                    /\ pc' = [pc EXCEPT ![r] = "done"]
                    /\ UNCHANGED schedReqs
               ELSE /\ schedReqs' = [schedReqs EXCEPT ![r] = Append(@, <<FirstTeam(teams)>>)]
                    /\ log' = [log EXCEPT ![r] = @ \o <<"ocr.end", "resolve", "schedule.begin">>]
                    /\ pc' = [pc EXCEPT ![r] = "schedule"]
                    /\ UNCHANGED sent
          ELSE /\ sent' = [sent EXCEPT ![r] =
                              @ \o <<NoTextResponse, Send(200, "undefined", EmptyObject)>>]
               /\ log' = [log EXCEPT ![r] = @ \o <<"ocr.end", "respond", "respond">>]
               /\ pc' = [pc EXCEPT ![r] = "done"]
               /\ UNCHANGED schedReqs
    /\ UNCHANGED <<file, bucket, fetched, schedBody, boxReqs, boxBody>>

\* res.on('end') of getCurrentGame with the whole body: parse, select the
\* game, call getGameStats, which issues the boxscore request.  A throw is
\* caught and rejects the promise; the rejection passes through
\* getTeamIdsFromText to the finish handler, which does not catch it.
ScheduleEnd(r, body) ==
    /\ pc[r] = "schedule"
    /\ schedBody' = [schedBody EXCEPT ![r] = <<body>>]
    /\ IF ScheduleThrows(body)
       THEN /\ pc' = [pc EXCEPT ![r] = "rejected"]
            /\ log' = [log EXCEPT ![r] = @ \o <<"schedule.end", "schedule.error">>]
            /\ UNCHANGED boxReqs
       ELSE /\ boxReqs' = [boxReqs EXCEPT ![r] = Append(@, SelectGame(body))]
            /\ pc' = [pc EXCEPT ![r] = "boxscore"]
            /\ log' = [log EXCEPT ![r] = @ \o <<"schedule.end", "boxscore.begin">>]
    /\ UNCHANGED <<file, bucket, fetched, detections, schedReqs, boxBody, sent>>

\* res.on('end') of getGameStats: parse and resolve(formatJson(json)); the
\* value resolves getCurrentGame and getTeamIdsFromText in turn and the finish
\* handler sends it with res.status(200).json(teamIds).
BoxscoreEnd(r, body) ==
    /\ pc[r] = "boxscore"
    /\ boxBody' = [boxBody EXCEPT ![r] = <<body>>]
    /\ IF ParseThrows(body) \/ FormatThrows(body)
       THEN /\ pc' = [pc EXCEPT ![r] = "rejected"]
            /\ log' = [log EXCEPT ![r] = @ \o <<"boxscore.end", "boxscore.error">>]
            /\ UNCHANGED sent
       ELSE /\ sent' = [sent EXCEPT ![r] = Append(@, Send(200, "object", formatJson(body)))]
            /\ pc' = [pc EXCEPT ![r] = "done"]
            /\ log' = [log EXCEPT ![r] = @ \o <<"boxscore.end", "respond">>]
    /\ UNCHANGED <<file, bucket, fetched, detections, schedReqs, schedBody, boxReqs>>

\* ----------------------------------------------------- part_000 handlers
\* textDetection resolves; the finish handler continues from line 120.
\* detections[0].description throws when there is no annotation.  Otherwise
\* getTeamIdsFromText computes teams, calls getCurrentGame(teams[0]) without
\* waiting for it (teams[0] is undefined when teams is empty) and returns
\* teams, which the handler sends at once.
OcrResolve0(r) ==
    /\ pc[r] = "annotating"
    /\ LET found == textAnnotations(fetched[r][1]) IN
       /\ detections' = [detections EXCEPT ![r] = found]
       /\ IF Len(found) > 0
          THEN LET teams == Teams0(found[1]) IN
               /\ schedReqs' = [schedReqs EXCEPT ![r] =
                     Append(@, IF Len(teams) > 0 THEN <<FirstTeam(teams)>> ELSE <<>>)]
               /\ sent' = [sent EXCEPT ![r] = Append(@, Send(200, "array", teams))]
               /\ log' = [log EXCEPT ![r] =
                     @ \o <<"ocr.end", "resolve", "schedule.begin", "respond">>]
               /\ pc' = [pc EXCEPT ![r] = "schedule"]
          ELSE /\ pc' = [pc EXCEPT ![r] = "rejected"]
               /\ log' = [log EXCEPT ![r] = @ \o <<"ocr.end", "ocr.error">>]
               /\ UNCHANGED <<schedReqs, sent>>
    /\ UNCHANGED <<file, bucket, fetched, schedBody, boxReqs, boxBody>>

\* res.on('end') of getCurrentGame: parse, take the next game's gamePk, call
\* getGameStats; a throw is caught and logged.
ScheduleEnd0(r, body) ==
    /\ pc[r] = "schedule"
    /\ schedBody' = [schedBody EXCEPT ![r] = <<body>>]
    /\ IF ScheduleThrows0(body)
       THEN /\ pc' = [pc EXCEPT ![r] = "done"]
            /\ log' = [log EXCEPT ![r] = @ \o <<"schedule.end", "schedule.error">>]
            /\ UNCHANGED boxReqs
       ELSE /\ boxReqs' = [boxReqs EXCEPT ![r] = Append(@, SelectGame0(body))]
            /\ pc' = [pc EXCEPT ![r] = "boxscore"]
            /\ log' = [log EXCEPT ![r] = @ \o <<"schedule.end", "boxscore.begin">>]
    /\ UNCHANGED <<file, bucket, fetched, detections, schedReqs, boxBody, sent>>

\* res.on('end') of getGameStats: parse and log; a throw is caught and logged.
BoxscoreEnd0(r, body) ==
    /\ pc[r] = "boxscore"
    /\ boxBody' = [boxBody EXCEPT ![r] = <<body>>]
    /\ pc' = [pc EXCEPT ![r] = "done"]
    /\ log' = [log EXCEPT ![r] =
          @ \o (IF ParseThrows(body) THEN <<"boxscore.end", "boxscore.error">>
                ELSE <<"boxscore.end">>)]
    /\ UNCHANGED <<file, bucket, fetched, detections, schedReqs, schedBody,
                   boxReqs, sent>>

\* ------------------------------------------------------- specifications
\* app.js serving clients that send one upload at a time, against storage,
\* OCR and stats services that may fail.
Next ==
    \E r \in Reqs :
        \/ Quiescent /\ UploadNoFile(r)
        \/ \E f \in FilesOf(FileNames, SampleImages) : Quiescent /\ UploadFile(r, f)
        \/ StoreError(r)
        \/ StoreFinish(r)
        \/ OcrFetch(r)
        \/ OcrReject(r)
        \/ OcrResolve(r)
        \/ \E body \in SampleSchedules : ScheduleEnd(r, body)
        \/ \E body \in SampleBoxscores : BoxscoreEnd(r, body)
        \/ RequestError(r)

Spec == Init /\ [][Next]_vars

\* part_000 under the same clients and services.
Next0 ==
    \E r \in Reqs :
        \/ Quiescent /\ UploadNoFile(r)
        \/ \E f \in FilesOf(FileNames, SampleImages) : Quiescent /\ UploadFile(r, f)
        \/ StoreError(r)
        \/ StoreFinish(r)
        \/ OcrFetch(r)
        \/ OcrReject(r)
        \/ OcrResolve0(r)
        \/ \E body \in SampleSchedules : ScheduleEnd0(r, body)
        \/ \E body \in SampleBoxscores : BoxscoreEnd0(r, body)
        \/ RequestError(r)

SpecOld == Init /\ [][Next0]_vars

\* app.js serving uploads that overlap in time, against services that answer
\* well.
NextConc ==
    \E r \in Reqs :
        \/ \E f \in FilesOf(FileNames, {TxtOneTeam, TxtTwoTeams}) : UploadFile(r, f)
        \/ StoreFinish(r)
        \/ OcrFetch(r)
        \/ OcrResolve(r)
        \/ ScheduleEnd(r, ScheduleLive)
        \/ BoxscoreEnd(r, BoxscoreOk)

SpecConc == Init /\ [][NextConc]_vars

\* app.js serving one upload whose image shows any text of the wide set.
NextText ==
    \/ pc[1] = "idle" /\ \E f \in FilesOf({"a.png"}, Texts) : UploadFile(1, f)
    \/ StoreFinish(1)
    \/ OcrFetch(1)
    \/ OcrResolve(1)
    \/ ScheduleEnd(1, ScheduleLive)
    \/ BoxscoreEnd(1, BoxscoreOk)

SpecText == Init /\ [][NextText]_vars

\* app.js serving one upload whose boxscore request is answered with any body
\* of the wide set.
NextFormat ==
    \/ UploadFile(1, [has |-> TRUE, originalname |-> "a.png", buffer |-> TxtOneTeam])
    \/ StoreFinish(1)
    \/ OcrFetch(1)
    \/ OcrResolve(1)
    \/ ScheduleEnd(1, ScheduleLive)
    \/ pc[1] = "boxscore" /\ \E body \in Boxscores \cup {Malformed} : BoxscoreEnd(1, body)

SpecFormat == Init /\ [][NextFormat]_vars

\* ---------------------------------------------------------------- claims
\* Event ev is in the log of request r.
Has(r, ev) == \E i \in DOMAIN log[r] : log[r][i] = ev

\* Position of the first ev in the log of request r.
At(r, ev) == CHOOSE i \in DOMAIN log[r] : log[r][i] = ev /\ \A j \in 1..(i - 1) : log[r][j] # ev

\* text[i..j] is a token: a maximal run of non-whitespace characters.
IsToken(text, i, j) ==
    /\ 1 <= i /\ i <= j /\ j <= Len(text)
    /\ \A k \in i..j : text[k] \notin Whitespace
    /\ i = 1 \/ text[i - 1] \in Whitespace
    /\ j = Len(text) \/ text[j + 1] \in Whitespace

\* The tokens of text that are keys of the team table, as <<start, end>>.
KeyTokens(text) ==
    { t \in (1..Len(text)) \X (1..Len(text)) :
        IsToken(text, t[1], t[2]) /\ hasOwnProperty(SubSeq(text, t[1], t[2])) }

\* The key token that starts first in the text.
FirstKeyToken(text) ==
    LET t == CHOOSE t \in KeyTokens(text) : \A u \in KeyTokens(text) : t[1] <= u[1]
    IN SubSeq(text, t[1], t[2])

\* C1: a request whose OCR call returned no annotation is answered with 404
\* {error: "No text in image"} and nothing else happens for it: that send is
\* the only one made on its response, its log ends with that respond, and no
\* team is resolved and no stats request issued.
C1_NoTextStops ==
    \A r \in Reqs :
        (Has(r, "ocr.end") /\ detections[r] = <<>>) =>
            /\ sent[r] = <<NoTextResponse>>
            /\ log[r][Len(log[r])] = "respond"
            /\ Len(SelectSeq(log[r], LAMBDA e : e = "respond")) = 1
            /\ ~Has(r, "resolve")
            /\ schedReqs[r] = <<>>
            /\ boxReqs[r] = <<>>

\* C2: a request whose detected text has no token that is a key of the team
\* table is answered with {} and issues neither a schedule nor a boxscore
\* request.
C2_NoTeamNoStatsCall ==
    \A r \in Reqs :
        (Has(r, "resolve") /\ KeyTokens(detections[r][1]) = {}) =>
            /\ sent[r] = <<Send(200, "object", EmptyObject)>>
            /\ schedReqs[r] = <<>>
            /\ boxReqs[r] = <<>>

\* C3: once the text of a request is resolved and has a token that is a key
\* of the team table, exactly one schedule request has been issued, and it
\* asks for the table value of the first such token in document order.
C3_FirstTokenDecides ==
    \A r \in Reqs :
        (Has(r, "resolve") /\ KeyTokens(detections[r][1]) # {}) =>
            schedReqs[r] = << <<lookup(FirstKeyToken(detections[r][1]))>> >>

\* A request is over whose text names Toronto first and the Islanders after:
\* the schedule of team 10 was asked for, once.
C3_Witness ==
    \E r \in Reqs :
        /\ pc[r] = "done"
        /\ detections[r] = <<TxtTwoTeams>>
        /\ Cardinality(KeyTokens(TxtTwoTeams)) = 2
        /\ schedReqs[r] = << <<10>> >>

\* C4: for a schedule body whose next game is Live the boxscore request asks
\* for the next game's gamePk.  For one whose next game is not Live it asks for
\* the previous game's gamePk, and never for the next game's.  A body that
\* lacks the game it needs leads to no boxscore request.
C4_LiveElsePrevious ==
    \A r \in Reqs :
        schedBody[r] # <<>> =>
            LET body == schedBody[r][1]
                hasNext == body.valid /\ body.next # <<>>
                live == body.next[1].status.abstractGameState = "Live"
            IN  /\ (hasNext /\ live) => boxReqs[r] = <<body.next[1].gamePk>>
                /\ (hasNext /\ ~live /\ body.prev # <<>>) =>
                       boxReqs[r] = <<body.prev[1].gamePk>>
                /\ (hasNext /\ ~live) =>
                       \A i \in DOMAIN boxReqs[r] : boxReqs[r][i] # body.next[1].gamePk
                /\ (~hasNext \/ (~live /\ body.prev = <<>>)) => boxReqs[r] = <<>>

\* One request saw a Live next game and asked for its boxscore; another saw a
\* next game that is only scheduled and asked for the previous game's.
C4_Witness ==
    \E r, q \in Reqs :
        /\ schedBody[r] # <<>> /\ schedBody[r][1].valid
        /\ schedBody[r][1].next # <<>>
        /\ schedBody[r][1].next[1].status.abstractGameState = "Live"
        /\ boxReqs[r] = <<2019020002>>
        /\ schedBody[q] # <<>> /\ schedBody[q][1].valid
        /\ schedBody[q][1].next # <<>>
        /\ schedBody[q][1].next[1].status.abstractGameState = "Preview"
        /\ boxReqs[q] = <<2019020001>>

\* The stages of the pipeline, each with the event that starts it and the
\* event that completes it, in pipeline order.
StageEvents ==
    << <<"store.begin", "store.end">>, <<"ocr.begin", "ocr.end">>,
       <<"resolve", "resolve">>, <<"schedule.begin", "schedule.end">>,
       <<"boxscore.begin", "boxscore.end">> >>

\* C5: no stage of a request starts before the previous stage has completed,
\* and a request that looked up a schedule sends its 200 response only after
\* the boxscore fetch has completed, with the formatted boxscore as body.
C5_StagesInOrder ==
    \A r \in Reqs :
        /\ \A k \in 2..Len(StageEvents) :
              Has(r, StageEvents[k][1]) =>
                  /\ Has(r, StageEvents[k - 1][2])
                  /\ At(r, StageEvents[k - 1][2]) <= At(r, StageEvents[k][1])
        /\ \A k \in 1..Len(StageEvents) :
              Has(r, StageEvents[k][2]) =>
                  /\ Has(r, StageEvents[k][1])
                  /\ At(r, StageEvents[k][1]) <= At(r, StageEvents[k][2])
        /\ (Has(r, "schedule.begin") /\ sent[r] # <<>>) =>
              /\ Has(r, "boxscore.end")
              /\ At(r, "boxscore.end") < At(r, "respond")
              /\ boxBody[r] # <<>> /\ boxBody[r][1].valid
              /\ sent[r] = <<Send(200, "object", formatJson(boxBody[r][1]))>>

\* C6: a request that met an upstream failure after its file was stored has
\* been answered with a 5xx response.
C6_UpstreamFailureAnswered ==
    \A r \in Reqs :
        (\E ev \in {"ocr.error", "schedule.error", "boxscore.error"} : Has(r, ev)) =>
            \E i \in DOMAIN sent[r] : sent[r][i].status >= 500

\* C7: a request without a file has one response, 400 with the plain text
\* 'No file uploaded.', and made no downstream call: nothing was stored,
\* fetched or detected for it and no stats request was issued.
C7_NoFileBadRequest ==
    \A r \in Reqs :
        (pc[r] # "idle" /\ ~file[r].has) =>
            /\ sent[r] = <<NoFileResponse>>
            /\ log[r] = <<"respond">>
            /\ fetched[r] = <<>> /\ detections[r] = <<>>
            /\ schedReqs[r] = <<>> /\ boxReqs[r] = <<>>

\* A request without a file has been answered, and the bucket is still empty.
C7_Witness ==
    \E r \in Reqs :
        /\ pc[r] = "done" /\ ~file[r].has
        /\ sent[r] = <<NoFileResponse>>
        /\ \A n \in FileNames : bucket[n] = <<>>

\* Every id of the side's onIce list has an entry in the side's roster.
RosterComplete(side) ==
    \A i \in DOMAIN side.onIce : <<"ID", side.onIce[i]>> \in DOMAIN side.players

\* out is the view of side: its team name and, per onIce id and in the same
\* order, that side's roster entry's fullName and primaryNumber; no other key.
IsViewOf(out, side) ==
    /\ DOMAIN out = {"name", "onIce"}
    /\ out.name = side.team.name
    /\ DOMAIN out.onIce = DOMAIN side.onIce
    /\ \A i \in DOMAIN side.onIce :
          LET person == side.players[<<"ID", side.onIce[i]>>].person IN
          /\ DOMAIN out.onIce[i] = {"fullName", "number"}
          /\ out.onIce[i].fullName = person.fullName
          /\ out.onIce[i].number = person.primaryNumber

\* C8: for a boxscore body in which every onIce id has a roster entry, the
\* response body has exactly the keys home and away, each the view of that
\* side of the body.
C8_FormatCopiesOnIce ==
    \A r \in Reqs :
        (/\ boxBody[r] # <<>>
         /\ boxBody[r][1].valid
         /\ RosterComplete(boxBody[r][1].teams.home)
         /\ RosterComplete(boxBody[r][1].teams.away)) =>
            /\ Len(sent[r]) = 1
            /\ sent[r][1].status = 200
            /\ DOMAIN sent[r][1].body = {"home", "away"}
            /\ IsViewOf(sent[r][1].body.home, boxBody[r][1].teams.home)
            /\ IsViewOf(sent[r][1].body.away, boxBody[r][1].teams.away)

\* A body with two players on ice per side, different teams and different
\* rosters, has been formatted and sent.
C8_Witness ==
    \E r \in Reqs :
        /\ pc[r] = "done" /\ boxBody[r] # <<>> /\ boxBody[r][1].valid
        /\ LET home == boxBody[r][1].teams.home
               away == boxBody[r][1].teams.away
           IN  /\ Len(home.onIce) = 2 /\ Len(away.onIce) = 2
               /\ home.onIce[1] # home.onIce[2]
               /\ home.team.name # away.team.name
               /\ home.players # away.players
               /\ Len(sent[r][1].body.home.onIce) = 2
               /\ Len(sent[r][1].body.away.onIce) = 2

\* C9: the object the OCR service reads for a request is the one that request
\* stored.
C9_ReadsOwnObject ==
    \A r \in Reqs : fetched[r] # <<>> => fetched[r] = <<file[r].buffer>>

\* C10: no request has more than one send made on its response.
C10_AtMostOneSend ==
    \A r \in Reqs : Len(sent[r]) <= 1

====
